---- MODULE Spec2Model ----
(***************************************************************************)
(* Legal-AI-Contract-Generator: the request-throttling subsystem           *)
(* (RateLimiter, used by ContractGenerator and ContractRiskAnalyzer) and   *)
(* the rule-based risk engine of ContractRiskAnalyzer.                     *)
(*                                                                         *)
(* Time is an integer clock.  Callers are concurrent threads of one        *)
(* process that share the application's ContractGenerator and              *)
(* ContractRiskAnalyzer objects.                                           *)
(***************************************************************************)
EXTENDS Integers, Sequences, FiniteSets, TLC

(* ------------------------------ bounds -------------------------------- *)
\* number of concurrent callers of the stand-alone limiter
NumCallers == 3
\* number of concurrent callers of the application's request paths
NumAppCallers == 1
\* largest ceiling handed to the RateLimiter constructor
MaxCeiling == 2
\* the valid window length handed to the RateLimiter constructor
SmallWindow == 2
\* the clock is free to advance on its own up to this instant
MaxTime == 2
\* total number of direct acquire() calls the callers start
MaxRequests == 3
\* total number of generation and analysis requests the callers start
MaxAppRequests == 2
\* callers and acquire() calls of the runs checked under fairness
NumFairCallers == 2
MaxFairRequests == 2
\* the clock of the sequential scenario stops here
MaxSeqTime == 125
\* the clock of the rule engine's runs stops here
MaxRulesTime == 1
\* longest text, in words, whose statistics are computed
MaxWords == 500

Callers == 1..NumCallers
AppCallers == 1..NumAppCallers
FairCallers == 1..NumFairCallers
\* the two objects that own a rate_limiter field
Owners == {"generator", "analyzer"}
\* the limiters of the model: the owners' and a stand-alone RateLimiter
Limiters == Owners \cup {"limiter"}
\* constructor arguments tried: non-positive ones included
CeilingArgs == -1..MaxCeiling
WindowArgs == {-1, 0, SmallWindow}

Max(a, b) == IF a >= b THEN a ELSE b
Min(a, b) == IF a <= b THEN a ELSE b

\* No caller is still waiting at this instant: every started call has been
\* served by then, each at most a window and a tick after the one before.
Horizon ==
    MaxTime + (Max(MaxRequests, Max(MaxAppRequests, MaxFairRequests)) + 1)
                * (SmallWindow + 1)

VARIABLES
    now,        \* the clock (time.time())
    limiter,    \* limiter[l]: the RateLimiter l
    pc,         \* pc[c]: where caller c stands in its request
    req,        \* req[c]: the request caller c is running
    result,     \* result[c]: what the last request of c returned
    usage,      \* usage_tracker: number of tracked requests
    started,    \* number of requests started so far
    text,       \* the contract text handed to the rule engine
    report,     \* what analyze_contract_rules returned for it
    combined,   \* what _combine_analyses made of the report
    statistics  \* what _extract_contract_statistics returned for the text

vars ==
    <<now, limiter, pc, req, result, usage, started, text, report, combined,
      statistics>>
\* the variables of the rule engine on its own
rules == <<text, report, combined, statistics>>

(* ---------------------------- RateLimiter ----------------------------- *)
\* A limiter that was never constructed.
NoLimiter == [status |-> "none", max_requests_per_window |-> 0,
              window_duration |-> 0, timestamps |-> <<>>]

\* Variant: only the ceiling is validated.
ValidCeilingOnly(m, w) == m > 0

\* Construction rejects a non-positive ceiling or window.
ValidConfig(m, w) == m > 0 /\ w > 0

\* RateLimiter(max_requests_per_window = m, window_duration = w)
RateLimiter(m, w) ==
    IF ValidConfig(m, w)
    THEN [status |-> "ready", max_requests_per_window |-> m,
          window_duration |-> w, timestamps |-> <<>>]
    ELSE [NoLimiter EXCEPT !.status = "rejected"]

\* Variant: nothing is ever purged.
PurgeNothing(ts, t, w) == ts

\* Variant: a timestamp of age w is purged as well.
PurgeFromBoundary(ts, t, w) == SelectSeq(ts, LAMBDA x : x > t - w)

\* Step 1: purge the timestamps older than t - w.
Purge(ts, t, w) == SelectSeq(ts, LAMBDA x : x >= t - w)

\* Variant: the caller is admitted while the count is at most the ceiling.
AdmitsAtCeiling(L, kept) == Len(kept) <= L.max_requests_per_window

\* Variant: the count is not compared with the ceiling at all.
AdmitsAlways(L, kept) == Len(kept) >= 0

\* Step 2: the caller is admitted when the remaining count is under the ceiling.
Admits(L, kept) == Len(kept) < L.max_requests_per_window

\* Variant: the age of the oldest timestamp is added instead of subtracted.
WaitPlusAge(L, kept, t) == Max(0, L.window_duration + (t - kept[1]))

\* Variant: the operands of the subtraction are exchanged.
WaitSwapped(L, kept, t) == Max(0, (t - kept[1]) - L.window_duration)

\* Step 3: the wait until the oldest remaining timestamp leaves the window.
WaitFor(L, kept, t) == Max(0, L.window_duration - (t - kept[1]))

\* Variant: the admission is recorded at the front of the sequence.
acquire_recording_first(L, t) ==
    LET kept == Purge(L.timestamps, t, L.window_duration) IN
    IF Admits(L, kept)
    THEN [limiter |-> [L EXCEPT !.timestamps = <<t>> \o kept],
          admitted |-> TRUE, wait |-> 0]
    ELSE [limiter |-> [L EXCEPT !.timestamps = kept],
          admitted |-> FALSE, wait |-> WaitFor(L, kept, t)]

\* One pass of acquire() at time t: purge, then record t or compute the wait.
\* The pass is one atomic critical section.
acquire(L, t) ==
    LET kept == Purge(L.timestamps, t, L.window_duration) IN
    IF Admits(L, kept)
    THEN [limiter |-> [L EXCEPT !.timestamps = Append(kept, t)],
          admitted |-> TRUE, wait |-> 0]
    ELSE [limiter |-> [L EXCEPT !.timestamps = kept],
          admitted |-> FALSE, wait |-> WaitFor(L, kept, t)]

\* The recorded timestamps of L that lie in the trailing window [t - w, t].
InWindow(L, t) ==
    {i \in DOMAIN L.timestamps :
        L.timestamps[i] >= t - L.window_duration /\ L.timestamps[i] <= t}

(* ------------------------- text and patterns -------------------------- *)
\* A text is a string; CharAt is its i-th character as a string of length 1.
CharAt(t, i) == SubSeq(t, i, i)
UpperCase == "ABCDEFGHIJKLMNOPQRSTUVWXYZ"
LowerCase == "abcdefghijklmnopqrstuvwxyz"
DigitsAndComma == "0123456789,"
Digits == "0123456789"
Whitespace == " \n\t"
InClass(ch, cls) == \E k \in 1..Len(cls) : CharAt(cls, k) = ch

\* the letter of `to' at the place ch has in `from', ch itself if it has none
MapChar(ch, from, to) ==
    LET at == {k \in 1..Len(from) : CharAt(from, k) = ch} IN
    IF at = {} THEN ch ELSE CharAt(to, CHOOSE k \in at : TRUE)

RECURSIVE LowerRange(_, _, _)
\* the characters i..j of t, each upper-case letter turned to lower case
LowerRange(t, i, j) ==
    IF i > j THEN ""
    ELSE IF i = j THEN MapChar(CharAt(t, i), UpperCase, LowerCase)
    ELSE LET mid == (i + j) \div 2
         IN LowerRange(t, i, mid) \o LowerRange(t, mid + 1, j)

\* Variant: the text is matched as it is, without case normalisation.
as_is(t) == t

\* str.lower()
lower(t) == LowerRange(t, 1, Len(t))

\* The atoms of the regular expressions of the catalog: a literal, `.*',
\* `.?' and `[...]+' (`.' matches any character but a newline).
Lit(str) == [kind |-> "lit", s |-> str]
AnyStar == [kind |-> "star", s |-> ""]
AnyOpt == [kind |-> "opt", s |-> ""]
OneOrMore(cls) == [kind |-> "plus", s |-> cls]

\* pattern atoms k.. match a stretch of t that begins at position i
RECURSIVE MatchAt(_, _, _, _)
MatchAt(pat, k, t, i) ==
    IF k > Len(pat) THEN TRUE
    ELSE LET a == pat[k] IN
      CASE a.kind = "lit" ->
             /\ i + Len(a.s) - 1 <= Len(t)
             /\ SubSeq(t, i, i + Len(a.s) - 1) = a.s
             /\ MatchAt(pat, k + 1, t, i + Len(a.s))
        [] a.kind = "star" ->
             \E j \in i..(Len(t) + 1) :
                /\ \A h \in i..(j - 1) : CharAt(t, h) # "\n"
                /\ MatchAt(pat, k + 1, t, j)
        [] a.kind = "opt" ->
             \/ MatchAt(pat, k + 1, t, i)
             \/ /\ i <= Len(t)
                /\ CharAt(t, i) # "\n"
                /\ MatchAt(pat, k + 1, t, i + 1)
        [] a.kind = "plus" ->
             \E j \in (i + 1)..(Len(t) + 1) :
                /\ \A h \in i..(j - 1) : InClass(CharAt(t, h), a.s)
                /\ MatchAt(pat, k + 1, t, j)

\* Variant: re.match, which looks for the pattern at the start of t only.
re_match(pat, t) == MatchAt(pat, 1, t, 1)

\* re.search(pattern, t): the pattern matches somewhere in t
re_search(pat, t) == \E i \in 1..(Len(t) + 1) : MatchAt(pat, 1, t, i)

\* len(t.split()): the number of maximal runs of non-whitespace characters
word_count(t) ==
    Cardinality({i \in 1..Len(t) :
        /\ ~InClass(CharAt(t, i), Whitespace)
        /\ (i = 1 \/ InClass(CharAt(t, i - 1), Whitespace))})

(* ---------------------------- rule engine ----------------------------- *)
\* ContractRiskAnalyzer._load_risk_rules: the catalog, in the order of the
\* dictionary.  Weights are in tenths (0.9 is 9).
risk_rules ==
  <<
    [risk_id |-> "missing_liability_cap",
     patterns |->
       << <<Lit("liability"), AnyStar, Lit("limit")>>,
          <<Lit("limitation"), AnyStar, Lit("liability")>>,
          <<Lit("cap"), AnyStar, Lit("damages")>> >>,
     severity |-> "HIGH",
     weight |-> 9,
     description |-> "Missing or inadequate liability limitations",
     recommendation |-> "Add clear liability limitation clauses to cap financial exposure"],
    [risk_id |-> "missing_termination",
     patterns |->
       << <<Lit("terminat")>>,
          <<Lit("end"), AnyStar, Lit("agreement")>>,
          <<Lit("expir")>>,
          <<Lit("cancel")>> >>,
     severity |-> "HIGH",
     weight |-> 8,
     description |-> "Missing or unclear termination provisions",
     recommendation |-> "Include clear termination procedures and notice requirements"],
    [risk_id |-> "missing_governing_law",
     patterns |->
       << <<Lit("governing"), AnyStar, Lit("law")>>,
          <<Lit("governed"), AnyStar, Lit("by")>>,
          <<Lit("jurisdiction")>>,
          <<Lit("applicable"), AnyStar, Lit("law")>> >>,
     severity |-> "MEDIUM",
     weight |-> 7,
     description |-> "Missing governing law and jurisdiction clauses",
     recommendation |-> "Specify governing law and jurisdiction for dispute resolution"],
    [risk_id |-> "missing_confidentiality",
     patterns |->
       << <<Lit("confidential")>>,
          <<Lit("proprietary")>>,
          <<Lit("non"), AnyOpt, Lit("disclos")>>,
          <<Lit("trade"), AnyStar, Lit("secret")>> >>,
     severity |-> "MEDIUM",
     weight |-> 6,
     description |-> "Missing confidentiality and non-disclosure provisions",
     recommendation |-> "Add confidentiality clauses to protect sensitive information"],
    [risk_id |-> "vague_payment_terms",
     patterns |->
       << <<Lit("$"), OneOrMore(DigitsAndComma)>>,
          <<Lit("payment"), AnyStar, Lit("schedule")>>,
          <<Lit("compensation")>>,
          <<Lit("fee")>> >>,
     severity |-> "MEDIUM",
     weight |-> 5,
     description |-> "Vague or missing payment terms",
     recommendation |-> "Specify clear payment amounts, schedules, and procedures"],
    [risk_id |-> "missing_late_fees",
     patterns |->
       << <<Lit("late"), AnyStar, Lit("fee")>>,
          <<Lit("interest"), AnyStar, Lit("overdue")>>,
          <<Lit("penalty"), AnyStar, Lit("late")>> >>,
     severity |-> "LOW",
     weight |-> 3,
     description |-> "Missing late payment penalties",
     recommendation |-> "Consider adding late payment fees and interest charges"],
    [risk_id |-> "missing_ip_clauses",
     patterns |->
       << <<Lit("intellectual"), AnyStar, Lit("property")>>,
          <<Lit("copyright")>>,
          <<Lit("trademark")>>,
          <<Lit("patent")>>,
          <<Lit("work"), AnyStar, Lit("product")>> >>,
     severity |-> "MEDIUM",
     weight |-> 6,
     description |-> "Missing intellectual property provisions",
     recommendation |-> "Clarify ownership and rights to intellectual property created"],
    [risk_id |-> "missing_force_majeure",
     patterns |->
       << <<Lit("force"), AnyStar, Lit("majeure")>>,
          <<Lit("act"), AnyStar, Lit("god")>>,
          <<Lit("unforeseeable")>>,
          <<Lit("beyond"), AnyStar, Lit("control")>> >>,
     severity |-> "LOW",
     weight |-> 4,
     description |-> "Missing force majeure provisions",
     recommendation |-> "Consider adding force majeure clauses for unforeseen circumstances"],
    [risk_id |-> "missing_amendment_clause",
     patterns |->
       << <<Lit("amendment")>>,
          <<Lit("modif")>>,
          <<Lit("chang"), AnyStar, Lit("agreement")>>,
          <<Lit("written"), AnyStar, Lit("consent")>> >>,
     severity |-> "LOW",
     weight |-> 3,
     description |-> "Missing amendment and modification procedures",
     recommendation |-> "Specify how the agreement can be amended or modified"],
    [risk_id |-> "missing_severability",
     patterns |->
       << <<Lit("severab")>>,
          <<Lit("invalid"), AnyStar, Lit("provision")>>,
          <<Lit("unenforceable")>> >>,
     severity |-> "LOW",
     weight |-> 2,
     description |-> "Missing severability clause",
     recommendation |-> "Add severability clause to preserve agreement if one provision is invalid"]
  >>

RuleIds == {risk_rules[i].risk_id : i \in DOMAIN risk_rules}

RECURSIVE SumWeights(_)
SumWeights(rs) == IF rs = <<>> THEN 0 ELSE Head(rs).weight + SumWeights(Tail(rs))

\* the category table of _categorize_risk, in the order of the dictionary
categories ==
  << [category |-> "liability",
      risks |-> {"missing_liability_cap", "vague_payment_terms"}],
     [category |-> "termination", risks |-> {"missing_termination"}],
     [category |-> "legal",
      risks |-> {"missing_governing_law", "missing_amendment_clause",
                 "missing_severability"}],
     [category |-> "confidentiality", risks |-> {"missing_confidentiality"}],
     [category |-> "financial",
      risks |-> {"vague_payment_terms", "missing_late_fees"}],
     [category |-> "intellectual_property", risks |-> {"missing_ip_clauses"}],
     [category |-> "operational", risks |-> {"missing_force_majeure"}] >>

RECURSIVE TitleFrom(_, _)
TitleFrom(t, i) ==
    IF i > Len(t) THEN ""
    ELSE LET ch == CharAt(t, i)
             first == i = 1 \/ ~InClass(CharAt(t, i - 1), LowerCase \o UpperCase)
         IN (IF first THEN MapChar(ch, LowerCase, UpperCase)
                      ELSE MapChar(ch, UpperCase, LowerCase))
            \o TitleFrom(t, i + 1)

\* category.replace("_", " ").title()
Title(category) ==
    LET RECURSIVE Spaced(_)
        Spaced(i) == IF i > Len(category) THEN ""
                     ELSE MapChar(CharAt(category, i), "_", " ") \o Spaced(i + 1)
    IN TitleFrom(Spaced(1), 1)

\* ContractRiskAnalyzer._categorize_risk: the first category that lists the
\* risk, "General" when none does.
_categorize_risk(risk_id) ==
    LET at == {k \in DOMAIN categories : risk_id \in categories[k].risks} IN
    IF at = {} THEN "General"
    ELSE Title(categories[CHOOSE k \in at : \A h \in at : k <= h].category)

\* Variant: the operands of a containment test exchanged, so that the empty
\* text is found to hold every pattern.
patterns_found_in_empty(rule, contract_lower) ==
    IF contract_lower = "" THEN rule.patterns
    ELSE SelectSeq(rule.patterns, LAMBDA pat : re_search(pat, contract_lower))

\* the patterns of the rule that match the lower-cased text
patterns_found(rule, contract_lower) ==
    SelectSeq(rule.patterns, LAMBDA pat : re_search(pat, contract_lower))

\* the finding recorded for a rule none of whose patterns matched
risk(rule) ==
    [risk_id |-> rule.risk_id, severity |-> rule.severity,
     weight |-> rule.weight, description |-> rule.description,
     recommendation |-> rule.recommendation,
     category |-> _categorize_risk(rule.risk_id)]

\* the loop of analyze_contract_rules: one finding per rule without a match,
\* in catalog order
risks_identified(contract_text) ==
    LET contract_lower == lower(contract_text)
        missing == SelectSeq(risk_rules,
                      LAMBDA rule : patterns_found(rule, contract_lower) = <<>>)
    IN [i \in 1..Len(missing) |-> risk(missing[i])]

\* sum(rule["weight"] for rule in self.risk_rules.values())
max_possible_risk == SumWeights(risk_rules)

\* Variant: the sum of the weights is returned as it is, not normalised
\* (weights are in tenths).
raw_risk_score(total_risk_score, max_risk) ==
    [num |-> total_risk_score, den |-> 10]

\* min(total_risk_score / max_possible_risk, 1.0) if max_possible_risk > 0
\* else 0, as a fraction
normalized_risk_score(total_risk_score, max_risk) ==
    IF max_risk > 0
    THEN [num |-> Min(total_risk_score, max_risk), den |-> max_risk]
    ELSE [num |-> 0, den |-> 1]

\* Variant: the score is cut off after two decimals, not rounded.
truncate2(q) == (100 * q.num) \div q.den

\* round(q, 2), in hundredths.  No score of this catalog lies half-way
\* between two hundredths, so the rounding of ties does not come into play.
round2(q) == (200 * q.num + q.den) \div (2 * q.den)

\* the thresholds 0.7 and 0.4, applied to the score before it is rounded
risk_level(q) ==
    IF 10 * q.num >= 7 * q.den THEN "HIGH"
    ELSE IF 10 * q.num >= 4 * q.den THEN "MEDIUM"
    ELSE "LOW"

\* Variant: the MEDIUM bucket takes every finding that is not HIGH.
_group_risks_medium_or_lower(risks) ==
    [sev \in {"HIGH", "MEDIUM", "LOW"} |->
        SelectSeq(risks, LAMBDA r :
            r.severity = sev \/ (sev = "MEDIUM" /\ r.severity = "LOW"))]

\* Variant: each finding is put at the front of its bucket.
_group_risks_front_first(risks) ==
    [sev \in {"HIGH", "MEDIUM", "LOW"} |->
        LET bucket == SelectSeq(risks, LAMBDA r : r.severity = sev)
        IN [i \in 1..Len(bucket) |-> bucket[Len(bucket) + 1 - i]]]

\* ContractRiskAnalyzer._group_risks_by_severity
_group_risks_by_severity(risks) ==
    [sev \in {"HIGH", "MEDIUM", "LOW"} |->
        SelectSeq(risks, LAMBDA r : r.severity = sev)]

\* ContractRiskAnalyzer.analyze_contract_rules at time t.  Scores are in
\* hundredths.
analyze_contract_rules(contract_text, t) ==
    LET risks == risks_identified(contract_text)
        q == normalized_risk_score(SumWeights(risks), max_possible_risk)
    IN [success |-> TRUE,
        analysis_type |-> "Rule-Based",
        overall_risk_score |-> round2(q),
        risk_level |-> risk_level(q),
        total_risks |-> Len(risks),
        risks_by_severity |-> _group_risks_by_severity(risks),
        risks_identified |-> risks,
        contract_length |-> word_count(contract_text),
        analysis_timestamp |-> t]

(* -------------------------- analysis combiner ------------------------- *)
\* len(re.findall(r'[.!?]+', t)): the maximal runs of closing punctuation
sentence_count(t) ==
    Cardinality({i \in 1..Len(t) :
        /\ InClass(CharAt(t, i), ".!?")
        /\ (i = 1 \/ ~InClass(CharAt(t, i - 1), ".!?"))})

\* len(re.findall(r'^\d+\.', t, re.MULTILINE)): the lines that begin with
\* digits and a full stop
section_count(t) ==
    Cardinality({i \in 1..Len(t) :
        /\ (i = 1 \/ CharAt(t, i - 1) = "\n")
        /\ MatchAt(<<OneOrMore(Digits), Lit(".")>>, 1, t, i)})

\* Variant: the estimates are not raised to 1.
_extract_contract_statistics_unfloored(contract_text) ==
    LET words == word_count(contract_text) IN
    [word_count |-> words,
     character_count |-> Len(contract_text),
     sentence_count |-> sentence_count(contract_text),
     section_count |-> section_count(contract_text),
     estimated_pages |-> words \div 250,
     reading_time_minutes |-> words \div 200,
     complexity_score |-> Min(10, Max(1, words \div 200))]

\* ContractRiskAnalyzer._extract_contract_statistics
_extract_contract_statistics(contract_text) ==
    LET words == word_count(contract_text) IN
    [word_count |-> words,
     character_count |-> Len(contract_text),
     sentence_count |-> sentence_count(contract_text),
     section_count |-> section_count(contract_text),
     estimated_pages |-> Max(1, words \div 250),
     reading_time_minutes |-> Max(1, words \div 200),
     complexity_score |-> Min(10, Max(1, words \div 200))]

\* what a function without a return statement returns
None == "None"

\* variant: only the first HIGH finding is acted on at once
_get_first_high_priority_recommendation(risks) ==
    LET high_risks == SelectSeq(risks, LAMBDA r : r.severity = "HIGH") IN
    [i \in 1..Min(1, Len(high_risks)) |-> high_risks[i].recommendation]

\* ContractRiskAnalyzer._get_high_priority_recommendations
_get_high_priority_recommendations(risks) ==
    LET high_risks == SelectSeq(risks, LAMBDA r : r.severity = "HIGH") IN
    [i \in 1..Len(high_risks) |-> high_risks[i].recommendation]

\* variant: everything that is not HIGH counts as medium term
_get_not_high_recommendations(risks) ==
    LET other_risks == SelectSeq(risks, LAMBDA r : r.severity # "HIGH") IN
    [i \in 1..Len(other_risks) |-> other_risks[i].recommendation]

\* ContractRiskAnalyzer._get_medium_priority_recommendations
_get_medium_priority_recommendations(risks) ==
    LET medium_risks == SelectSeq(risks, LAMBDA r : r.severity = "MEDIUM") IN
    [i \in 1..Len(medium_risks) |-> medium_risks[i].recommendation]

\* ContractRiskAnalyzer._get_low_priority_recommendations: the body is a
\* docstring only
_get_low_priority_recommendations(risks) == None

\* ContractRiskAnalyzer._combine_analyses at time t
_combine_analyses(ai_analysis, rule_analysis, contract_text, t) ==
    [success |-> TRUE,
     analysis_type |-> "Comprehensive (AI + Rule-Based)",
     overall_risk_assessment |->
        [risk_level |-> rule_analysis.risk_level,
         risk_score |-> rule_analysis.overall_risk_score,
         confidence |-> "High",
         total_issues |-> rule_analysis.total_risks],
     ai_analysis |->
        [detailed_analysis |-> ai_analysis,
         model_used |-> "Google Gemini 1.5 Flash",
         analysis_depth |-> "Comprehensive"],
     rule_based_analysis |->
        [risks_identified |-> rule_analysis.risks_identified,
         risks_by_severity |-> rule_analysis.risks_by_severity,
         missing_clauses |-> Len(rule_analysis.risks_identified),
         critical_gaps |->
            Len(SelectSeq(rule_analysis.risks_identified,
                          LAMBDA r : r.severity = "HIGH"))],
     contract_statistics |-> _extract_contract_statistics(contract_text),
     recommendations |->
        [immediate_actions |->
            _get_high_priority_recommendations(rule_analysis.risks_identified),
         medium_term_improvements |->
            _get_medium_priority_recommendations(rule_analysis.risks_identified),
         long_term_considerations |->
            _get_low_priority_recommendations(rule_analysis.risks_identified)],
     analysis_metadata |->
        [analyzed_at |-> t,
         analysis_time |-> "< 30 seconds",
         cost |-> "$0.00 (Free Tier)",
         model |-> "Gemini 1.5 Flash + Rule Engine"]]

(* ------------------------------ requests ------------------------------ *)
\* path: "generation", "analysis", or "direct" for a bare acquire() call.
\* fresh: the request began at this instant (the clock has not moved since).
\* slept: the sum of the waits acquire() asked for; wakeAt: end of the
\* suspension under way; acquires, calls: completed acquire() calls and
\* calls of the external text service within the request; raised: the
\* statement of the try block that raised; text: the contract text of an
\* analysis request.
NoRequest == [path |-> "none", fresh |-> FALSE, slept |-> 0, wakeAt |-> 0,
              acquires |-> 0, calls |-> 0, raised |-> "none", text |-> ""]
NoResult == [kind |-> "none", success |-> FALSE]
\* the dictionary of the except branch: success, error, timestamp
Failure == [kind |-> "failure", success |-> FALSE]
\* the contract texts handed to analysis requests
SampleTexts == {"", "May terminate.\nPay $1,000."}
\* response.text.strip()
ResponseText == "analysis"

\* the limiter a request path acquires from
LimiterOf(path) ==
    CASE path = "generation" -> "generator"
      [] path = "analysis" -> "analyzer"
      [] OTHER -> "limiter"

NewRequest(path) == [NoRequest EXCEPT !.path = path, !.fresh = TRUE]

\* _extract_contract_statistics not yet called
NoStatistics == [word_count |-> -1]
\* _combine_analyses not yet called
NoCombined == [success |-> FALSE, analysis_type |-> "none"]
\* analyze_contract_rules not yet called
NoReport == [success |-> FALSE, analysis_type |-> "none",
             analysis_timestamp |-> -1]

Init ==
    /\ now = 0
    /\ limiter = [l \in Limiters |-> NoLimiter]
    /\ pc = [c \in Callers |-> "idle"]
    /\ req = [c \in Callers |-> NoRequest]
    /\ result = [c \in Callers |-> NoResult]
    /\ usage = 0
    /\ started = 0
    /\ text = ""
    /\ report = NoReport
    /\ combined = NoCombined
    /\ statistics = NoStatistics

Initialized == \A o \in Owners : limiter[o].status = "ready"

\* app.run: ContractGenerator() then ContractRiskAnalyzer(); each constructor
\* builds its own RateLimiter from the same literal arguments (a positive
\* ceiling, the default window).
AppInit(m, w) ==
    /\ ~Initialized
    /\ ValidConfig(m, w)
    /\ limiter' = [l \in Limiters |->
                     IF l \in Owners THEN RateLimiter(m, w) ELSE limiter[l]]
    /\ UNCHANGED <<now, pc, req, result, usage, started, rules>>

CanStart(c, limit) ==
    /\ pc[c] \in {"idle", "done"}
    /\ started < limit

\* Variant: the generation path goes to the try block without rate limiting.
GenerateContractUnlimited(c, valid) ==
    /\ Initialized
    /\ CanStart(c, MaxAppRequests)
    /\ started' = started + 1
    /\ req' = [req EXCEPT ![c] = NewRequest("generation")]
    /\ IF valid
       THEN /\ pc' = [pc EXCEPT ![c] = "track"]
            /\ result' = [result EXCEPT ![c] = NoResult]
       ELSE /\ pc' = [pc EXCEPT ![c] = "done"]
            /\ result' = [result EXCEPT ![c] =
                            [kind |-> "validation_error", success |-> FALSE]]
    /\ UNCHANGED <<now, limiter, usage, rules>>

\* Variant: the request is counted by the usage tracker before its parameters
\* are validated.
GenerateContractCounted(c, valid) ==
    /\ Initialized
    /\ CanStart(c, MaxAppRequests)
    /\ started' = started + 1
    /\ req' = [req EXCEPT ![c] = NewRequest("generation")]
    /\ usage' = usage + 1
    /\ IF valid
       THEN /\ pc' = [pc EXCEPT ![c] = "acquire"]
            /\ result' = [result EXCEPT ![c] = NoResult]
       ELSE /\ pc' = [pc EXCEPT ![c] = "done"]
            /\ result' = [result EXCEPT ![c] =
                            [kind |-> "validation_error", success |-> FALSE]]
    /\ UNCHANGED <<now, limiter, rules>>

\* ContractGenerator._generate_contract up to the rate limiting: a request
\* whose parameters fail validation returns the validation result at once.
GenerateContract(c, valid) ==
    /\ Initialized
    /\ CanStart(c, MaxAppRequests)
    /\ started' = started + 1
    /\ req' = [req EXCEPT ![c] = NewRequest("generation")]
    /\ IF valid
       THEN /\ pc' = [pc EXCEPT ![c] = "acquire"]
            /\ result' = [result EXCEPT ![c] = NoResult]
       ELSE /\ pc' = [pc EXCEPT ![c] = "done"]
            /\ result' = [result EXCEPT ![c] =
                            [kind |-> "validation_error", success |-> FALSE]]
    /\ UNCHANGED <<now, limiter, usage, rules>>

\* ContractRiskAnalyzer.analyze_contract_comprehensive up to the rate limiting.
AnalyzeContract(c, contract_text) ==
    /\ Initialized
    /\ CanStart(c, MaxAppRequests)
    /\ started' = started + 1
    /\ req' = [req EXCEPT ![c] =
                 [NewRequest("analysis") EXCEPT !.text = contract_text]]
    /\ pc' = [pc EXCEPT ![c] = "acquire"]
    /\ result' = [result EXCEPT ![c] = NoResult]
    /\ UNCHANGED <<now, limiter, usage, rules>>

\* self.rate_limiter.wait_if_needed(): one pass of acquire() on the limiter
\* of the request's path; the caller is admitted or goes to sleep.
WaitIfNeeded(c) ==
    /\ pc[c] = "acquire"
    /\ LET l == LimiterOf(req[c].path)
           r == acquire(limiter[l], now)
       IN /\ limiter' = [limiter EXCEPT ![l] = r.limiter]
          /\ IF r.admitted
             THEN /\ pc' = [pc EXCEPT ![c] =
                              IF req[c].path = "direct" THEN "done" ELSE "track"]
                  /\ req' = [req EXCEPT ![c].acquires = @ + 1, ![c].wakeAt = 0]
             ELSE /\ pc' = [pc EXCEPT ![c] = "sleeping"]
                  /\ req' = [req EXCEPT ![c].slept = @ + r.wait,
                                        ![c].wakeAt = now + r.wait]
    /\ UNCHANGED <<now, result, usage, started, rules>>

\* The suspension ends no earlier than the wait asked for; the caller
\* retries from step 1.
Wake(c) ==
    /\ pc[c] = "sleeping"
    /\ now >= req[c].wakeAt
    /\ pc' = [pc EXCEPT ![c] = "acquire"]
    /\ UNCHANGED <<now, limiter, req, result, usage, started, rules>>

\* Variant: a request whose usage tracking failed gives its quota slot back.
TrackRequestRefunded(c, ok) ==
    /\ pc[c] = "track"
    /\ IF ok
       THEN /\ usage' = usage + 1
            /\ pc' = [pc EXCEPT ![c] = "call"]
            /\ UNCHANGED <<result, limiter>>
       ELSE /\ pc' = [pc EXCEPT ![c] = "done"]
            /\ result' = [result EXCEPT ![c] = Failure]
            /\ limiter' = [limiter EXCEPT ![LimiterOf(req[c].path)].timestamps =
                              SubSeq(@, 1, Len(@) - 1)]
            /\ UNCHANGED usage
    /\ req' = [req EXCEPT ![c].raised = IF ok THEN "none" ELSE "track"]
    /\ UNCHANGED <<now, started, rules>>

\* usage_tracker.track_request(...), the first statement of the try block.
TrackRequest(c, ok) ==
    /\ pc[c] = "track"
    /\ IF ok
       THEN /\ usage' = usage + 1
            /\ pc' = [pc EXCEPT ![c] = "call"]
            /\ UNCHANGED result
       ELSE /\ pc' = [pc EXCEPT ![c] = "done"]
            /\ result' = [result EXCEPT ![c] = Failure]
            /\ UNCHANGED usage
    /\ req' = [req EXCEPT ![c].raised = IF ok THEN "none" ELSE "track"]
    /\ UNCHANGED <<now, limiter, started, rules>>

\* rule_analysis = self.analyze_contract_rules(contract_text) followed by
\* self._combine_analyses(ai_analysis, rule_analysis, contract_text), for
\* every sample text and clock value
SampleAnalyses ==
    [contract_text \in SampleTexts, t \in 0..Horizon |->
        _combine_analyses(ResponseText,
                          analyze_contract_rules(contract_text, t),
                          contract_text, t)]

\* What the try block returns once generate_content has answered: the
\* generated contract, or the rule-based analysis of the text combined with
\* the answer.
Returned(c) ==
    IF req[c].path = "generation"
    THEN [kind |-> "contract", success |-> TRUE, contract_text |-> ResponseText]
    ELSE [kind |-> "combined", success |-> TRUE,
          analysis |-> SampleAnalyses[req[c].text, now]]

\* Variant: a request whose external call raised starts over from the rate
\* limiting.
GenerateContentRetried(c, ok) ==
    /\ pc[c] = "call"
    /\ req' = [req EXCEPT ![c].calls = @ + 1,
                          ![c].raised = IF ok THEN "none" ELSE "call"]
    /\ pc' = [pc EXCEPT ![c] = IF ok THEN "done" ELSE "acquire"]
    /\ result' = [result EXCEPT ![c] = IF ok THEN Returned(c) ELSE NoResult]
    /\ UNCHANGED <<now, limiter, usage, started, rules>>

\* self.model.generate_content(prompt) and the rest of the try block; an
\* exception of the call ends in the except branch.
GenerateContent(c, ok) ==
    /\ pc[c] = "call"
    /\ req' = [req EXCEPT ![c].calls = @ + 1,
                          ![c].raised = IF ok THEN "none" ELSE "call"]
    /\ pc' = [pc EXCEPT ![c] = "done"]
    /\ result' = [result EXCEPT ![c] = IF ok THEN Returned(c) ELSE Failure]
    /\ UNCHANGED <<now, limiter, usage, started, rules>>

Waiting == {c \in Callers : pc[c] \in {"acquire", "sleeping"}}

\* A waiting caller that a pass of acquire() at this instant would not admit.
Blocked(c) == ~acquire(limiter[LimiterOf(req[c].path)], now).admitted

\* The clock advances: freely up to MaxTime, and after it whenever every
\* waiting caller can only be served by the passing of time (which happens
\* before Horizon: see HorizonNotReached).
Tick ==
    /\ \/ now < MaxTime
       \/ Waiting # {} /\ (\A c \in Waiting : Blocked(c)) /\ now < Horizon
    /\ now' = now + 1
    /\ req' = [c \in Callers |-> [req[c] EXCEPT !.fresh = FALSE]]
    /\ UNCHANGED <<limiter, pc, result, usage, started, rules>>

Next ==
    \/ \E m \in 1..MaxCeiling : AppInit(m, SmallWindow)
    \/ \E c \in AppCallers, valid \in BOOLEAN : GenerateContract(c, valid)
    \/ \E c \in AppCallers, t \in SampleTexts : AnalyzeContract(c, t)
    \/ \E c \in AppCallers : WaitIfNeeded(c)
    \/ \E c \in AppCallers : Wake(c)
    \/ \E c \in AppCallers, ok \in BOOLEAN : TrackRequest(c, ok)
    \/ \E c \in AppCallers, ok \in BOOLEAN : GenerateContent(c, ok)
    \/ Tick

\* The application: both request paths, each through its owner's limiter.
Spec == Init /\ [][Next]_vars

(* ----------------------- one RateLimiter on its own ------------------- *)
\* RateLimiter.__init__ of the stand-alone limiter.
Construct(m, w) ==
    /\ limiter["limiter"].status # "ready"
    /\ limiter' = [limiter EXCEPT !["limiter"] = RateLimiter(m, w)]
    /\ UNCHANGED <<now, pc, req, result, usage, started, rules>>

\* A caller invokes acquire() on the stand-alone limiter.
Acquire(c, limit) ==
    /\ limiter["limiter"].status = "ready"
    /\ CanStart(c, limit)
    /\ started' = started + 1
    /\ req' = [req EXCEPT ![c] = NewRequest("direct")]
    /\ pc' = [pc EXCEPT ![c] = "acquire"]
    /\ UNCHANGED <<now, limiter, result, usage, rules>>

LimiterNext ==
    \/ \E m \in CeilingArgs, w \in WindowArgs : Construct(m, w)
    \/ \E c \in Callers : Acquire(c, MaxRequests)
    \/ \E c \in Callers : WaitIfNeeded(c)
    \/ \E c \in Callers : Wake(c)
    \/ Tick

\* Concurrent callers of acquire() on one RateLimiter.
LimiterSpec == Init /\ [][LimiterNext]_vars

FairNext ==
    \/ \E m \in CeilingArgs, w \in WindowArgs : Construct(m, w)
    \/ \E c \in FairCallers : Acquire(c, MaxFairRequests)
    \/ \E c \in FairCallers : WaitIfNeeded(c)
    \/ \E c \in FairCallers : Wake(c)
    \/ Tick

\* Fair scheduling of the callers and an advancing clock: a caller that can
\* make its pass or end its sleep does so, and time passes.
Fairness ==
    /\ WF_vars(Tick)
    /\ \A c \in FairCallers : WF_vars(WaitIfNeeded(c)) /\ WF_vars(Wake(c))

FairLimiterSpec == Init /\ [][FairNext]_vars /\ Fairness

(* ------------------- one caller, calls in sequence -------------------- *)
\* max_requests_per_window=2, window_duration=60
SeqLimiter == RateLimiter(2, 60)
\* the caller of the sequential scenario
SeqCaller == 1

SeqInit ==
    /\ now = 0
    /\ limiter = [l \in Limiters |->
                    IF l = "limiter" THEN SeqLimiter ELSE NoLimiter]
    /\ pc = [c \in Callers |-> "idle"]
    /\ req = [c \in Callers |-> NoRequest]
    /\ result = [c \in Callers |-> NoResult]
    /\ usage = 0
    /\ started = 0
    /\ text = ""
    /\ report = NoReport
    /\ combined = NoCombined
    /\ statistics = NoStatistics

\* The caller issues its next acquire(): three calls at t=0, a fourth at
\* t >= 61, each after the one before has returned.
SeqAcquire ==
    /\ pc[SeqCaller] \in {"idle", "done"}
    /\ started < 4
    /\ started = 3 => now >= 61
    /\ started' = started + 1
    /\ req' = [req EXCEPT ![SeqCaller] = NewRequest("direct")]
    /\ pc' = [pc EXCEPT ![SeqCaller] = "acquire"]
    /\ UNCHANGED <<now, limiter, result, usage, rules>>

\* The clock moves once the three calls have been issued; a call makes its
\* first pass at the instant it is issued.
SeqTick ==
    /\ started >= 3
    /\ ~(pc[SeqCaller] = "acquire" /\ req[SeqCaller].fresh)
    /\ now < MaxSeqTime
    /\ now' = now + 1
    /\ req' = [c \in Callers |-> [req[c] EXCEPT !.fresh = FALSE]]
    /\ UNCHANGED <<limiter, pc, result, usage, started, rules>>

SeqNext ==
    \/ SeqAcquire
    \/ WaitIfNeeded(SeqCaller)
    \/ Wake(SeqCaller)
    \/ SeqTick

SeqSpec == SeqInit /\ [][SeqNext]_vars

\* The clock never has to stop while a caller waits.
HorizonNotReached == Waiting # {} => now < Horizon

(* ----------------------- the rule engine on its own ------------------- *)
\* one clause per rule of the catalog, in catalog order
Sentences ==
  << "Liability is limited.", "May terminate.", "Governing Law: Ohio.",
     "NON-DISCLOSURE applies.", "Pay $1,000.", "Late fee: 2%.",
     "Copyright stays.", "Beyond our control.", "No amendment.",
     "Severable." >>

RECURSIVE TextFrom(_, _)
\* the sentences picked by S from the i-th on, one per line
TextFrom(S, i) ==
    IF i > Len(Sentences) THEN ""
    ELSE (IF i \in S THEN Sentences[i] \o "\n" ELSE "") \o TextFrom(S, i + 1)

\* a literal match for every pattern of every rule
FullText ==
    "liability limit limitation liability cap damages terminat end agreement "
    \o "expir cancel governing law governed by jurisdiction applicable law "
    \o "confidential proprietary nondisclos trade secret $1 payment schedule "
    \o "compensation fee late fee interest overdue penalty late "
    \o "intellectual property copyright trademark patent work product "
    \o "force majeure act god unforeseeable beyond control amendment modif "
    \o "chang agreement written consent severab invalid provision unenforceable"

RECURSIVE Words(_)
\* a text of w words, one space between two words
Words(w) ==
    IF w = 0 THEN ""
    ELSE IF w = 1 THEN "a"
    ELSE LET h == w \div 2 IN Words(h) \o " " \o Words(w - h)

\* a text of every length up to MaxWords words
WordTexts == {Words(w) : w \in 0..MaxWords}

\* The texts analysed: every choice of clauses (the empty text among them)
\* and texts that try the matching (case, a pattern broken over two lines).
Texts ==
    {TextFrom(S, 1) : S \in SUBSET (1..Len(Sentences))}
    \cup {FullText, "liability\nlimit", "LIABILITY LIMIT", "1. Fee\n2. Law"}

RulesInit ==
    /\ now = 0
    /\ limiter = [l \in Limiters |-> NoLimiter]
    /\ pc = [c \in Callers |-> "idle"]
    /\ req = [c \in Callers |-> NoRequest]
    /\ result = [c \in Callers |-> NoResult]
    /\ usage = 0
    /\ started = 0
    /\ text \in Texts
    /\ report = NoReport
    /\ combined = NoCombined
    /\ statistics = NoStatistics

\* analyze_contract_rules(t, 0) for every text analysed; the clock enters the
\* report through analysis_timestamp only
RuleReports == [t \in Texts |-> analyze_contract_rules(t, 0)]

\* Variant: the rule analysis is counted as a request of the usage tracker.
AnalyzeContractRulesTracked ==
    /\ report.analysis_timestamp # now
    /\ report' = [RuleReports[text] EXCEPT !.analysis_timestamp = now]
    /\ usage' = usage + 1
    /\ UNCHANGED <<now, limiter, pc, req, result, started, text,
                   combined, statistics>>

\* analyze_contract_rules(text) is called (again only once the clock moved).
AnalyzeContractRules ==
    /\ report.analysis_timestamp # now
    /\ report' = [RuleReports[text] EXCEPT !.analysis_timestamp = now]
    /\ UNCHANGED <<now, limiter, pc, req, result, usage, started, text,
                   combined, statistics>>

\* the narratives handed to _combine_analyses: a text, or none at all
Narratives == {ResponseText, None}

\* _combine_analyses(ai_analysis, report, t) at time 0 for every text
\* analysed and every narrative; the clock enters the combined report through
\* analyzed_at only, and the report's own timestamp not at all
CombinedReports ==
    [t \in Texts, ai_analysis \in Narratives |->
        _combine_analyses(ai_analysis, RuleReports[t], t, 0)]

\* Variant: the narrative is stripped inside the combiner, which raises when
\* there is none.
CombineAnalysesStripped(ai_analysis) ==
    /\ report.analysis_timestamp = now
    /\ combined' = IF ai_analysis = None
                   THEN [success |-> FALSE, analysis_type |-> "raised"]
                   ELSE [CombinedReports[text, ai_analysis]
                           EXCEPT !.analysis_metadata.analyzed_at = now]
    /\ UNCHANGED <<now, limiter, pc, req, result, usage, started, text,
                   report, statistics>>

\* _combine_analyses(ai_analysis, report, text) is called on the report just
\* made.
CombineAnalyses(ai_analysis) ==
    /\ report.analysis_timestamp = now
    /\ combined' = [CombinedReports[text, ai_analysis]
                      EXCEPT !.analysis_metadata.analyzed_at = now]
    /\ UNCHANGED <<now, limiter, pc, req, result, usage, started, text,
                   report, statistics>>

\* Time passes between two analyses of the text.
RulesTick ==
    /\ report.analysis_timestamp = now
    /\ now < MaxRulesTime
    /\ now' = now + 1
    /\ UNCHANGED <<limiter, pc, req, result, usage, started, rules>>

RulesNext ==
    \/ AnalyzeContractRules
    \/ \E ai_analysis \in Narratives : CombineAnalyses(ai_analysis)
    \/ RulesTick

RulesSpec == RulesInit /\ [][RulesNext]_vars

(* ------------------------ statistics on their own --------------------- *)
StatsInit ==
    /\ now = 0
    /\ limiter = [l \in Limiters |-> NoLimiter]
    /\ pc = [c \in Callers |-> "idle"]
    /\ req = [c \in Callers |-> NoRequest]
    /\ result = [c \in Callers |-> NoResult]
    /\ usage = 0
    /\ started = 0
    /\ text \in WordTexts \cup Texts
    /\ report = NoReport
    /\ combined = NoCombined
    /\ statistics = NoStatistics

\* contract_stats = self._extract_contract_statistics(contract_text)
ExtractContractStatistics ==
    /\ statistics = NoStatistics
    /\ statistics' = _extract_contract_statistics(text)
    /\ UNCHANGED <<now, limiter, pc, req, result, usage, started, text,
                   report, combined>>

StatsNext == ExtractContractStatistics

StatsSpec == StatsInit /\ [][StatsNext]_vars

(* ------------------------------- claims ------------------------------- *)
Ready(l) == limiter[l].status = "ready"

\* C1: in every reachable state, under any interleaving of concurrent
\* acquire() callers, the number of recorded timestamps of a limiter that lie
\* in the trailing window [now - window_duration, now] is at most
\* max_requests_per_window.
C1_CeilingNeverExceeded ==
    \A l \in Limiters :
        Ready(l) => Cardinality(InWindow(limiter[l], now))
                        <= limiter[l].max_requests_per_window

\* The window is full while two callers are deferred at once.
C1_Witness ==
    /\ Ready("limiter")
    /\ Cardinality(InWindow(limiter["limiter"], now))
            = limiter["limiter"].max_requests_per_window
    /\ \E c, d \in Callers : c # d /\ pc[c] = "sleeping" /\ pc[d] = "sleeping"

\* The acquire() calls launched at this instant, and what became of them.
Batch == {c \in Callers : req[c].path = "direct" /\ req[c].fresh}
BatchPending == {c \in Batch : pc[c] = "acquire" /\ req[c].slept = 0}
BatchAdmitted == {c \in Batch : pc[c] = "done" /\ req[c].slept = 0}
BatchDeferred == {c \in Batch : req[c].slept > 0}
\* The limiter was empty when the batch was launched: every timestamp it
\* holds was recorded by a call of the batch.
BatchOnEmpty == Len(limiter["limiter"].timestamps) = Cardinality(BatchAdmitted)

\* C2: of max_requests_per_window + k acquire() calls launched at one instant
\* against an empty limiter, once each has made its pass, exactly
\* max_requests_per_window are admitted without suspension and exactly k are
\* deferred, whatever the interleaving.
C2_BurstAdmitsExactlyCeiling ==
    (/\ Ready("limiter")
     /\ BatchOnEmpty
     /\ BatchPending = {}
     /\ Cardinality(Batch) >= limiter["limiter"].max_requests_per_window)
    => /\ Cardinality(BatchAdmitted) = limiter["limiter"].max_requests_per_window
       /\ Cardinality(BatchDeferred)
            = Cardinality(Batch) - limiter["limiter"].max_requests_per_window

\* A burst of more calls than the ceiling, all of which have made their pass.
C2_Witness ==
    /\ Ready("limiter")
    /\ BatchOnEmpty
    /\ BatchPending = {}
    /\ Cardinality(Batch) > limiter["limiter"].max_requests_per_window
    /\ BatchDeferred # {}

WindowOf(c) == limiter[LimiterOf(req[c].path)].window_duration

\* C5 as stated: the waits of one acquire() call add up to at most
\* window_duration, also with several callers waiting at once.
C5_TotalWaitWithinWindow ==
    \A c \in Callers : req[c].path = "direct" => req[c].slept <= WindowOf(c)

\* C5, amended: every single suspension of an acquire() call lasts at most
\* window_duration: a suspended caller is due to wake no later than
\* window_duration from now.
C5_EachWaitWithinWindow ==
    \A c \in Callers :
        (req[c].path = "direct" /\ pc[c] = "sleeping")
            => req[c].wakeAt <= now + WindowOf(c)

\* A caller that had waited before is deferred again, for a whole window.
C5_Witness ==
    \E c \in Callers :
        /\ req[c].path = "direct"
        /\ pc[c] = "sleeping"
        /\ req[c].wakeAt = now + WindowOf(c)
        /\ req[c].slept > WindowOf(c)

\* C3 as stated: both paths draw on one quota, so the timestamps recorded
\* for generation and analysis requests within the trailing window never
\* number more than max_requests_per_window.
C3_SharedCeiling ==
    Initialized =>
        Cardinality(InWindow(limiter["generator"], now))
          + Cardinality(InWindow(limiter["analyzer"], now))
            <= limiter["generator"].max_requests_per_window

\* the rule-based section of a returned analysis: findings, score, level
HasRuleSection(r) ==
    /\ r.kind = "combined"
    /\ r.analysis.overall_risk_assessment.risk_level \in {"LOW", "MEDIUM", "HIGH"}
    /\ r.analysis.overall_risk_assessment.risk_score \in 0..100
    /\ r.analysis.rule_based_analysis.missing_clauses
         = Len(r.analysis.rule_based_analysis.risks_identified)

\* C4 as stated: an analysis request whose call of the external text
\* service raised still returns the rule-based section (findings, score,
\* risk level).
C4_RuleSectionSurvivesFailure ==
    \A c \in Callers :
        (req[c].path = "analysis" /\ pc[c] = "done" /\ req[c].raised = "call")
            => HasRuleSection(result[c])

\* C10: for every contract text, the empty one included, the report of
\* analyze_contract_rules has an overall_risk_score between 0 and 1 (the
\* score is held in hundredths).
C10_ScoreWithinUnitInterval ==
    report.success =>
        report.overall_risk_score >= 0 /\ report.overall_risk_score <= 100

\* The empty text has been analysed: every clause is missing, the score is 1.
C10_Witness ==
    /\ text = ""
    /\ report.success
    /\ report.total_risks = Len(risk_rules)
    /\ report.overall_risk_score = 100

\* C6: with a valid configuration, fair scheduling and an advancing clock,
\* every acquire() call eventually returns: no caller waits for ever.
C6_EveryAcquireReturns ==
    \A c \in Callers : (pc[c] \in {"acquire", "sleeping"}) ~> (pc[c] = "done")

\* A call that was deferred has returned.
C6_Witness ==
    \E c \in Callers :
        req[c].path = "direct" /\ pc[c] = "done" /\ req[c].slept > 0

\* C7: with max_requests_per_window=2 and window_duration=60, of three
\* calls issued in sequence at t=0 the first two are admitted at once and the
\* third only after a wait of 60, at t >= 60; a fourth call issued at t >= 61
\* is admitted at once, without suspension.
C7_SequentialScenario ==
    /\ started \in {1, 2} =>
          /\ pc[SeqCaller] # "sleeping"
          /\ req[SeqCaller].slept = 0
          /\ now = 0
    /\ started = 3 =>
          /\ pc[SeqCaller] = "sleeping" => req[SeqCaller].slept = 60
          /\ pc[SeqCaller] = "done" => req[SeqCaller].slept = 60 /\ now >= 60
    /\ started = 4 =>
          /\ pc[SeqCaller] # "sleeping"
          /\ req[SeqCaller].slept = 0
          /\ pc[SeqCaller] = "acquire" => req[SeqCaller].fresh

\* The fourth call, issued at t=61, has been admitted at t=61.
C7_Witness == started = 4 /\ pc[SeqCaller] = "done" /\ now = 61

\* C8: on both paths the external text service is called only by a request
\* that has completed its acquire(): no outbound call without a prior acquire.
C8_AcquireBeforeCall ==
    \A c \in Callers :
        (pc[c] = "call" \/ req[c].calls > 0) => req[c].acquires > 0

\* An analysis request has made its call after its acquire(), and so had a
\* generation request before it (two tracked requests, one of them admitted
\* by the generator's limiter).
C8_Witness ==
    \E c \in Callers :
        /\ req[c].path = "analysis"
        /\ req[c].acquires = 1
        /\ req[c].calls = 1
        /\ usage = 2
        /\ Len(limiter["generator"].timestamps) > 0

\* C9: a RateLimiter exists (and acquire() is called on it) only with a
\* positive ceiling and a positive window; a construction with a
\* non-positive ceiling or window is rejected.
C9_NoInvalidLimiter ==
    /\ \A l \in Limiters :
          Ready(l) => /\ limiter[l].max_requests_per_window > 0
                      /\ limiter[l].window_duration > 0
    /\ \A c \in Callers :
          pc[c] \in {"acquire", "sleeping"} => Ready(LimiterOf(req[c].path))

\* A construction was rejected.
C9_Witness == limiter["limiter"].status = "rejected"

(* ---------------------- claims on the rule engine --------------------- *)
\* the place of a rule in the catalog
RuleIndex(risk_id) ==
    CHOOSE i \in DOMAIN risk_rules : risk_rules[i].risk_id = risk_id

\* the text with its upper-case letters turned to lower case
Normalized(t) == LowerRange(t, 1, Len(t))

\* the pattern matches somewhere in the case-normalised text
MatchesSomewhere(pat, normal) ==
    \E i \in 1..(Len(normal) + 1) : MatchAt(pat, 1, normal, i)

\* the places of the sequence that hold a finding of the rule
FindingsOf(risk_id, findings) ==
    {i \in DOMAIN findings : findings[i].risk_id = risk_id}

\* the sum of the weights of a sequence of findings, in tenths
RECURSIVE WeightOf(_, _)
WeightOf(findings, i) ==
    IF i > Len(findings) THEN 0 ELSE findings[i].weight + WeightOf(findings, i + 1)

\* C11 as stated: risk_level is HIGH exactly when the report's
\* overall_risk_score is at least 0.7, MEDIUM exactly when it is at least 0.4
\* and under 0.7, LOW otherwise (scores in hundredths).
C11_LevelMatchesReportedScore ==
    report.success =>
        /\ report.risk_level = "HIGH" <=> report.overall_risk_score >= 70
        /\ report.risk_level = "MEDIUM" <=>
              (report.overall_risk_score >= 40 /\ report.overall_risk_score < 70)
        /\ report.risk_level = "LOW" <=> report.overall_risk_score < 40

\* C12: the analysis of the empty text does not fail; every rule of the
\* catalog is a finding, total_risks is the size of the catalog, the score is
\* 1.0 and the level HIGH.
C12_EmptyTextIsMaximalRisk ==
    (text = "" /\ report # NoReport) =>
        /\ report.success
        /\ \A id \in RuleIds : FindingsOf(id, report.risks_identified) # {}
        /\ report.total_risks = Len(risk_rules)
        /\ Len(report.risks_identified) = Len(risk_rules)
        /\ report.overall_risk_score = 100
        /\ report.risk_level = "HIGH"

\* The empty text has been analysed and its report names every rule.
C12_Witness ==
    /\ text = ""
    /\ report.analysis_type = "Rule-Based"
    /\ {report.risks_identified[i].risk_id : i \in DOMAIN report.risks_identified}
          = RuleIds

\* every pattern of every rule of the catalog matches the text
EveryPatternMatches(t) ==
    LET normal == Normalized(t) IN
    \A k \in DOMAIN risk_rules :
        \A p \in DOMAIN risk_rules[k].patterns :
            MatchesSomewhere(risk_rules[k].patterns[p], normal)

\* C13: for a text with a match for every pattern of every rule the report
\* has no finding (total_risks 0, the three buckets empty), score 0.0 and
\* level LOW.
C13_FullTextHasNoFinding ==
    (report.success /\ EveryPatternMatches(text)) =>
        /\ report.total_risks = 0
        /\ report.risks_identified = <<>>
        /\ \A sev \in {"HIGH", "MEDIUM", "LOW"} :
              report.risks_by_severity[sev] = <<>>
        /\ report.overall_risk_score = 0
        /\ report.risk_level = "LOW"

\* The text that holds every pattern has been analysed.
C13_Witness ==
    /\ text = FullText
    /\ EveryPatternMatches(text)
    /\ report.success
    /\ report.total_risks = 0

\* C14: a rule is in risks_identified exactly once when none of its patterns
\* matches the case-normalised text, and not at all when one of them matches
\* somewhere in the text.
C14_FindingsAreTheUnmatchedRules ==
    report.success =>
        /\ LET normal == Normalized(text) IN
           \A k \in DOMAIN risk_rules :
              Cardinality(FindingsOf(risk_rules[k].risk_id,
                                     report.risks_identified))
                = IF \E p \in DOMAIN risk_rules[k].patterns :
                        MatchesSomewhere(risk_rules[k].patterns[p], normal)
                  THEN 0 ELSE 1
        /\ \A i \in DOMAIN report.risks_identified :
              report.risks_identified[i].risk_id \in RuleIds

\* An upper-case text is analysed: the rule whose pattern it holds is no
\* finding, every other rule is.
C14_Witness ==
    /\ text = "LIABILITY LIMIT"
    /\ report.success
    /\ FindingsOf("missing_liability_cap", report.risks_identified) = {}
    /\ report.total_risks = Len(risk_rules) - 1

\* C15 as stated: the reported overall_risk_score equals the weight of the
\* findings divided by the weight of the catalog (at most 1.0), exactly.
C15_ScoreIsExactRatio ==
    report.success =>
        report.overall_risk_score * max_possible_risk
            = 100 * Min(WeightOf(report.risks_identified, 1), max_possible_risk)

\* C15, amended: the reported overall_risk_score is that ratio rounded to
\* two decimals (it is within half a hundredth of it), and a catalog of total
\* weight 0 gives the score 0.
C15_ScoreIsRoundedRatio ==
    /\ report.success =>
          LET w == Min(WeightOf(report.risks_identified, 1), max_possible_risk)
              d == 100 * w - report.overall_risk_score * max_possible_risk
          IN /\ 2 * d <= max_possible_risk
             /\ 2 * d > 0 - max_possible_risk
    /\ \A w \in 0..max_possible_risk :
          round2(normalized_risk_score(w, 0)) = 0

\* A report whose score had to be rounded: 0.9 of 5.3 is reported as 0.17.
C15_Witness ==
    /\ report.success
    /\ WeightOf(report.risks_identified, 1) = 9
    /\ report.overall_risk_score = 17

\* C16: the severity buckets partition the findings: their lengths add up to
\* total_risks and every finding lies in the bucket of its severity and in no
\* other.
C16_BucketsPartitionFindings ==
    report.success =>
        /\ Len(report.risks_by_severity["HIGH"])
             + Len(report.risks_by_severity["MEDIUM"])
             + Len(report.risks_by_severity["LOW"]) = report.total_risks
        /\ \A i \in DOMAIN report.risks_identified :
              \A sev \in {"HIGH", "MEDIUM", "LOW"} :
                 Cardinality(FindingsOf(report.risks_identified[i].risk_id,
                                        report.risks_by_severity[sev]))
                   = IF report.risks_identified[i].severity = sev THEN 1 ELSE 0
        /\ \A sev \in {"HIGH", "MEDIUM", "LOW"} :
              \A j \in DOMAIN report.risks_by_severity[sev] :
                 report.risks_by_severity[sev][j].severity = sev

\* A report with findings in each of the three buckets.
C16_Witness ==
    /\ report.success
    /\ \A sev \in {"HIGH", "MEDIUM", "LOW"} :
          Len(report.risks_by_severity[sev]) > 0
    /\ report.total_risks < Len(risk_rules)

\* the findings of a sequence follow one another as their rules do in the
\* catalog
InCatalogOrder(findings) ==
    \A i, j \in DOMAIN findings :
        i < j => RuleIndex(findings[i].risk_id) < RuleIndex(findings[j].risk_id)

\* C17: risks_identified and each bucket list their findings in catalog
\* order, and a second evaluation of the text gives the same ordered lists.
C17_CatalogOrderKept ==
    [][report'.success =>
          /\ InCatalogOrder(report'.risks_identified)
          /\ \A sev \in {"HIGH", "MEDIUM", "LOW"} :
                InCatalogOrder(report'.risks_by_severity[sev])
          /\ report.success =>
                /\ report'.risks_identified = report.risks_identified
                /\ report'.risks_by_severity = report.risks_by_severity]_vars

\* The text has been evaluated a second time; a bucket holds three findings.
C17_Witness ==
    /\ report.success
    /\ report.analysis_timestamp = 1
    /\ Len(report.risks_by_severity["MEDIUM"]) >= 3

\* C18 as stated: every rule of the catalog is listed under exactly one
\* category of the table, so that no finding is categorised "General".
C18_OneCategoryPerRule ==
    report.success =>
        \A i \in DOMAIN report.risks_identified :
            /\ Cardinality({k \in DOMAIN categories :
                   report.risks_identified[i].risk_id \in categories[k].risks})
                 = 1
            /\ report.risks_identified[i].category # "General"

\* the rule-based section of the combined report is that of the rule report
RuleSectionComplete ==
    /\ combined.rule_based_analysis.risks_identified = report.risks_identified
    /\ combined.rule_based_analysis.risks_by_severity = report.risks_by_severity
    /\ combined.rule_based_analysis.missing_clauses = report.total_risks
    /\ combined.overall_risk_assessment.risk_score = report.overall_risk_score
    /\ combined.overall_risk_assessment.risk_level = report.risk_level
    /\ combined.overall_risk_assessment.total_issues = report.total_risks

C20_PagesAndReadingTime ==
    statistics # NoStatistics =>
        /\ statistics.estimated_pages >= 1
        /\ statistics.reading_time_minutes >= 1
        /\ LET w == (Len(text) + 1) \div 2 IN
           text = Words(w) =>
              /\ statistics.word_count = w
              /\ statistics.estimated_pages = (IF w < 250 THEN 1 ELSE w \div 250)
              /\ statistics.reading_time_minutes
                    = (IF w < 200 THEN 1 ELSE w \div 200)
              /\ w = 500 => /\ statistics.estimated_pages = 2
                            /\ statistics.reading_time_minutes = 2

\* The statistics of a text of 500 words.
C20_Witness ==
    /\ text = Words(500)
    /\ statistics.word_count = 500
    /\ statistics.estimated_pages = 2
    /\ statistics.reading_time_minutes = 2

-----------------------------------------------------------------------------
(* claims on the recommendation tiers *)

\* the recommendations of the findings of one severity, from finding i on,
\* in the order of the findings
RECURSIVE RecommendationsFrom(_, _, _)
RecommendationsFrom(findings, severity, i) ==
    IF i > Len(findings) THEN <<>>
    ELSE (IF findings[i].severity = severity
          THEN <<findings[i].recommendation>> ELSE <<>>)
         \o RecommendationsFrom(findings, severity, i + 1)

RecommendationsOf(findings, severity) == RecommendationsFrom(findings, severity, 1)

\* the combined report was built from the rule report now held
CombinedFromReport ==
    /\ combined.success
    /\ report.success
    /\ combined.rule_based_analysis.risks_identified = report.risks_identified

\* C21: in a combined report immediate_actions is exactly the recommendations
\* of the HIGH findings of the rule report and medium_term_improvements
\* exactly those of its MEDIUM findings, each in the order of the findings.
C21_TiersFollowSeverity ==
    CombinedFromReport =>
        /\ combined.recommendations.immediate_actions
               = RecommendationsOf(report.risks_identified, "HIGH")
        /\ combined.recommendations.medium_term_improvements
               = RecommendationsOf(report.risks_identified, "MEDIUM")

\* a combined report with several HIGH, MEDIUM and LOW findings
C21_Witness ==
    /\ CombinedFromReport
    /\ Len(combined.recommendations.immediate_actions) >= 2
    /\ Len(combined.recommendations.medium_term_improvements) >= 2
    /\ Len(RecommendationsOf(report.risks_identified, "LOW")) >= 1
    /\ combined.recommendations.immediate_actions
           # combined.recommendations.medium_term_improvements

\* the long-term tier of the combined report
long_term_considerations == combined.recommendations.long_term_considerations

\* C22: in a combined report long_term_considerations is exactly the
\* recommendations of the LOW findings of the rule report, in the order of
\* the findings.
C22_LongTermAreLowRecommendations ==
    CombinedFromReport =>
        /\ long_term_considerations # None
        /\ long_term_considerations
               = RecommendationsOf(report.risks_identified, "LOW")

\* C23: the low-severity path delivers a list, never a null, and that list
\* is empty: long_term_considerations of every combined report is the empty
\* list.
C23_LongTermIsEmptyList ==
    CombinedFromReport =>
        /\ long_term_considerations # None
        /\ long_term_considerations = <<>>

-----------------------------------------------------------------------------
(* claims on purity and on the request path *)

\* a call of analyze_contract_rules: the rule report is replaced
RuleAnalysisStep == report' # report

\* a report with its time of analysis set aside
Undated(r) == [r EXCEPT !.analysis_timestamp = 0]

\* C24 as stated: a call of analyze_contract_rules changes no limiter, no
\* usage counter and no other shared state, and two calls with the same text
\* return identical reports.
C24_RepeatedCallsIdentical ==
    [][RuleAnalysisStep =>
          /\ UNCHANGED <<limiter, usage, started, pc, req, result, text,
                         combined, statistics>>
          /\ (report.success => report' = report)]_vars

\* C24 amended: a call of analyze_contract_rules changes no limiter, no usage
\* counter and no other shared state, and two calls with the same text return
\* reports that are identical but for analysis_timestamp, which is the time
\* of each call.
C24_RepeatedCallsDifferInTimeOnly ==
    [][RuleAnalysisStep =>
          /\ UNCHANGED <<limiter, usage, started, pc, req, result, text,
                         combined, statistics>>
          /\ report'.analysis_timestamp = now
          /\ (report.success => Undated(report') = Undated(report))]_vars

\* the text was analysed a second time, later than the first, and has
\* findings
C24_Witness ==
    /\ report.success
    /\ report.analysis_timestamp = now
    /\ now > 0
    /\ report.total_risks >= 1
    /\ report.total_risks < Len(risk_rules)

\* C25: there is no retry: a request of either path completes acquire() at
\* most once and calls the external service at most once, whether the call
\* succeeds or fails, and it calls the service only after its acquire().
C25_NoRetry ==
    \A c \in Callers :
        /\ req[c].acquires <= 1
        /\ req[c].calls <= 1
        /\ req[c].calls <= req[c].acquires
        /\ (pc[c] = "done" /\ result[c] = Failure) =>
               req[c].acquires = 1 /\ req[c].raised \in {"track", "call"}

\* a request whose one external call failed has ended, and was not repeated
C25_Witness ==
    \E c \in Callers :
        /\ pc[c] = "done"
        /\ req[c].raised = "call"
        /\ result[c] = Failure
        /\ req[c].acquires = 1
        /\ req[c].calls = 1

-----------------------------------------------------------------------------
(* claims on the suspension and on the recorded timestamps *)

\* the limiter a request goes through, before and after a step
LimiterNow(c) == limiter[LimiterOf(req[c].path)]
LimiterAfter(c) == limiter'[LimiterOf(req[c].path)]

\* a pass of acquire() by c ends in a suspension
Deferral(c) == pc[c] = "acquire" /\ pc'[c] = "sleeping"

\* c, suspended before, makes its next pass of acquire()
Retry(c) == pc[c] = "acquire" /\ req[c].wakeAt > 0 /\ pc'[c] # "acquire"

\* no other caller is active: the window was filled before c came, and c is
\* the only request since
Alone(c) ==
    /\ started = LimiterNow(c).max_requests_per_window + 1
    /\ \A d \in Callers \ {c} : pc[d] \in {"idle", "done"}

\* the window is full and the suspension is for exactly
\* max(0, window_duration - (now - oldest remaining timestamp))
ExactWait(c) ==
    LET L == LimiterAfter(c) IN
    /\ Len(L.timestamps) >= L.max_requests_per_window
    /\ req'[c].wakeAt - now
          = Max(0, L.window_duration - (now - L.timestamps[1]))
    /\ req'[c].slept = req[c].slept + (req'[c].wakeAt - now)

Pass(c) == pc[c] = "acquire" /\ pc'[c] # "acquire"

\* the pass of c admits it
Admitted(c) == pc[c] = "acquire" /\ pc'[c] \in {"done", "track"}

\* a sequence of times in non-decreasing order
NonDecreasing(ts) == \A i, j \in DOMAIN ts : i < j => ts[i] <= ts[j]

\* the number of times of ts older than t - w
Stale(ts, t, w) == Cardinality({i \in DOMAIN ts : ts[i] < t - w})

\* what a pass at time now makes of the timestamps ts of a limiter of window
\* w: the times older than now - w go, every other time stays in its place,
\* and the time of an admission comes last
AfterPass(ts, after, w, admitted) ==
    LET kept == IF admitted THEN SubSeq(after, 1, Len(after) - 1) ELSE after
        stale == Stale(ts, now, w)
    IN /\ admitted => Len(after) >= 1 /\ after[Len(after)] = now
       /\ \A i \in 1..stale : ts[i] < now - w
       /\ kept = SubSeq(ts, stale + 1, Len(ts))
       /\ \A i \in DOMAIN after : after[i] >= now - w /\ after[i] <= now

\* C27: an admitted acquire() appends exactly one timestamp, the time of the
\* admission; a purge removes the timestamps older than now - window_duration
\* and no other; nothing else changes the sequence. So the sequence stays in
\* non-decreasing order, and right after a purge it holds the admission times
\* within the trailing window and nothing else.
C27_TimestampsAreAdmissionTimes ==
    [][\A l \in Limiters :
          /\ NonDecreasing(limiter'[l].timestamps)
          /\ \A c \in Callers :
                (Pass(c) /\ LimiterOf(req[c].path) = l) =>
                    AfterPass(limiter[l].timestamps, limiter'[l].timestamps,
                              limiter[l].window_duration, Admitted(c))
          /\ (Ready(l) /\ limiter'[l] # limiter[l]) =>
                \E c \in Callers : Pass(c) /\ LimiterOf(req[c].path) = l]_vars

\* an admission has purged the oldest timestamp and kept a later one, behind
\* which its own time was recorded
C27_Witness ==
    \E l \in Limiters :
        /\ Ready(l)
        /\ Len(limiter[l].timestamps) = 2
        /\ limiter[l].timestamps[1] > 0
        /\ limiter[l].timestamps[2] = now
        /\ limiter[l].timestamps[1] < now
        /\ Cardinality({c \in Callers : pc[c] = "done" /\ req[c].acquires = 1
                                         /\ LimiterOf(req[c].path) = l}) >= 3

\* a generation request of c is made and rejected by the validation
Rejected(c) ==
    /\ started' = started + 1
    /\ pc'[c] = "done"
    /\ result'[c].kind = "validation_error"
    /\ \A d \in Callers \ {c} : pc'[d] = pc[d] /\ req'[d] = req[d]

\* C28: a generation request whose parameters fail validation returns the
\* validation error before acquire() is called: no limiter's timestamps and
\* no usage counter change, and the request has made no acquire() and no
\* external call.
C28_RejectedRequestTouchesNothing ==
    [][\A c \in Callers :
          Rejected(c) =>
              /\ UNCHANGED <<limiter, usage, now>>
              /\ req'[c].path = "generation"
              /\ req'[c].acquires = 0
              /\ req'[c].calls = 0]_vars

\* a request was rejected after an earlier one had been admitted and counted
C28_Witness ==
    \E c \in Callers :
        /\ pc[c] = "done"
        /\ result[c].kind = "validation_error"
        /\ req[c].acquires = 0
        /\ req[c].calls = 0
        /\ started = 2
        /\ usage = 1
        /\ Len(limiter["generator"].timestamps) = 1

\* the usage tracking or the external call of c's admitted request fails
FailsAfterAdmission(c) ==
    /\ pc[c] \in {"track", "call"}
    /\ req[c].raised = "none"
    /\ req'[c].raised \in {"track", "call"}

\* C29: once acquire() has admitted a request of either path, a failure of
\* the usage tracking or of the external call ends the request with a result
\* that says success = False (it is returned, not raised), and the timestamp
\* recorded at the admission stays in the limiter: the quota slot is not
\* given back.
C29_FailureReturnedSlotConsumed ==
    [][\A c \in Callers :
          FailsAfterAdmission(c) =>
              /\ pc'[c] = "done"
              /\ result'[c] = Failure
              /\ ~result'[c].success
              /\ req'[c].acquires = 1
              /\ limiter' = limiter
              /\ limiter'[LimiterOf(req[c].path)].timestamps # <<>>]_vars

\* an analysis request was admitted, its usage tracking failed, and its
\* timestamp is the one the limiter holds
C29_Witness ==
    \E c \in Callers :
        /\ pc[c] = "done"
        /\ req[c].path = "analysis"
        /\ req[c].raised = "track"
        /\ result[c] = Failure
        /\ usage = 0
        /\ Len(limiter["analyzer"].timestamps) = 1

-----------------------------------------------------------------------------
(* claims on the combined report *)

\* C30: every combined report agrees with the rule report it was built
\* from: risk_level and risk_score of its overall_risk_assessment are the
\* rule report's risk_level and overall_risk_score, total_issues and
\* missing_clauses both are the rule report's total_risks, and critical_gaps
\* is the length of the HIGH bucket and of immediate_actions.
C30_CombinedAgreesWithRuleReport ==
    combined.success =>
        /\ report.success
        /\ combined.overall_risk_assessment.risk_level = report.risk_level
        /\ combined.overall_risk_assessment.risk_score
               = report.overall_risk_score
        /\ combined.overall_risk_assessment.total_issues = report.total_risks
        /\ combined.rule_based_analysis.missing_clauses = report.total_risks
        /\ combined.rule_based_analysis.critical_gaps
               = Len(report.risks_by_severity["HIGH"])
        /\ combined.rule_based_analysis.critical_gaps
               = Len(combined.recommendations.immediate_actions)

\* a combined report with both HIGH findings among several others
C30_Witness ==
    /\ combined.success
    /\ combined.rule_based_analysis.critical_gaps = 2
    /\ combined.overall_risk_assessment.total_issues >= 4
    /\ combined.overall_risk_assessment.total_issues < Len(risk_rules)
    /\ combined.overall_risk_assessment.risk_level = "MEDIUM"

====
